---- MODULE Spec2Model ----
(***************************************************************************)
(* Movie Review API (Logan-0/goBackend): the HTTP handlers of api.go, the  *)
(* PostgreSQL store of storage.go and the Review constructor of types.go,  *)
(* as one state machine.  A request is handled in one step: the handler,   *)
(* the store statement it runs and the response it writes.                 *)
(*                                                                         *)
(* Text that the code inspects character by character (the releaseDate,    *)
(* the {id} path parameter, the timestamps) is a sequence of one-character *)
(* strings; text that the code only copies (title, rating, ...) is a       *)
(* string.                                                                 *)
(***************************************************************************)
EXTENDS Integers, Sequences, FiniteSets, TLC

\* Bounds of the model.
MaxCreates == 2   \* INSERT statements that reach the table in one behaviour
MaxNow == 1       \* minutes the server clock advances in one behaviour
MaxWaiting == 2   \* operations that can queue for a connection beyond the pool's size
MaxInflight == 2  \* handlers that run at once while the server shuts down

(***************************************************************************)
(* Characters                                                              *)
(***************************************************************************)
Digits == <<"0", "1", "2", "3", "4", "5", "6", "7", "8", "9">>

UpperCase == <<"A", "B", "C", "D", "E", "F", "G", "H", "I", "J", "K", "L", "M",
               "N", "O", "P", "Q", "R", "S", "T", "U", "V", "W", "X", "Y", "Z">>

LowerCase == <<"a", "b", "c", "d", "e", "f", "g", "h", "i", "j", "k", "l", "m",
               "n", "o", "p", "q", "r", "s", "t", "u", "v", "w", "x", "y", "z">>

IndexOf(c, alphabet) ==
    IF \E i \in 1..Len(alphabet) : alphabet[i] = c
    THEN CHOOSE i \in 1..Len(alphabet) : alphabet[i] = c
    ELSE 0

\* time.isDigit(s, i), 1-based here: false beyond the end of s.
isDigit(s, i) == i <= Len(s) /\ s[i] \in {"0", "1", "2", "3", "4", "5", "6", "7", "8", "9"}

DigitVal(c) == IndexOf(c, Digits) - 1

isUpper(c) == IndexOf(c, UpperCase) > 0

\* ASCII lower-casing, as time.match applies it to both operands.
lower(c) == IF isUpper(c) THEN LowerCase[IndexOf(c, UpperCase)] ELSE c

\* The element of a one-element set.  The({F(v) : v \in {e}}) is F(e) with e
\* evaluated once, however often F uses it.
The(S) == CHOOSE x \in S : TRUE

\* s[n:] of Go.
Drop(s, n) == SubSeq(s, n + 1, Len(s))

\* s[0:n] of Go, for n <= len(s).
Take(s, n) == SubSeq(s, 1, n)

HasPrefix(s, p) == Len(s) >= Len(p) /\ Take(s, Len(p)) = p

\* strconv.Itoa, which also formats the %d of fmt.Errorf.
RECURSIVE Itoa(_)
Itoa(n) == IF n < 0 THEN <<"-">> \o Itoa(0 - n)
           ELSE IF n < 10 THEN <<Digits[n + 1]>>
           ELSE Itoa(n \div 10) \o <<Digits[(n % 10) + 1]>>

\* The number of leading decimal digits of s.
RECURSIVE leadingDigits(_)
leadingDigits(s) == IF isDigit(s, 1) THEN 1 + leadingDigits(Tail(s)) ELSE 0

\* The value of a sequence of decimal digits.
RECURSIVE digitsValue(_)
digitsValue(s) == IF s = <<>> THEN 0
                  ELSE digitsValue(Take(s, Len(s) - 1)) * 10 + DigitVal(s[Len(s)])

(***************************************************************************)
(* strconv.Atoi: an optional sign, then decimal digits and nothing else.   *)
(***************************************************************************)
Atoi(s) ==
    LET signed == Len(s) > 0 /\ s[1] \in {"+", "-"}
        digits == IF signed THEN Tail(s) ELSE s
    IN IF digits # <<>> /\ leadingDigits(digits) = Len(digits)
       THEN [ok |-> TRUE,
             n |-> IF signed /\ s[1] = "-" THEN 0 - digitsValue(digits)
                   ELSE digitsValue(digits)]
       ELSE [ok |-> FALSE, n |-> 0]

(***************************************************************************)
(* time.Parse(time.RFC822, value) and Time.Format(time.RFC822).            *)
(* RFC822 is the layout "02 Jan 06 15:04 MST".  A time is the record       *)
(* [year, month, day, hour, min, zone]; zone is the abbreviation Format    *)
(* prints.  The server's local zone is UTC.                                *)
(***************************************************************************)
shortMonthNames == << <<"J", "a", "n">>, <<"F", "e", "b">>, <<"M", "a", "r">>,
                      <<"A", "p", "r">>, <<"M", "a", "y">>, <<"J", "u", "n">>,
                      <<"J", "u", "l">>, <<"A", "u", "g">>, <<"S", "e", "p">>,
                      <<"O", "c", "t">>, <<"N", "o", "v">>, <<"D", "e", "c">> >>

UTC == <<"U", "T", "C">>

LocalZone == UTC

ParseFail == [ok |-> FALSE, n |-> 0, rest |-> <<>>]

\* time.getnum: one or two digits, exactly two when fixed.
getnum(s, fixed) ==
    IF ~isDigit(s, 1) THEN ParseFail
    ELSE IF ~isDigit(s, 2)
         THEN IF fixed THEN ParseFail
              ELSE [ok |-> TRUE, n |-> DigitVal(s[1]), rest |-> Drop(s, 1)]
         ELSE [ok |-> TRUE, n |-> DigitVal(s[1]) * 10 + DigitVal(s[2]),
               rest |-> Drop(s, 2)]

RECURSIVE cutspace(_)
cutspace(s) == IF Len(s) > 0 /\ s[1] = " " THEN cutspace(Tail(s)) ELSE s

\* time.skip for a layout prefix of one space: any run of spaces, also none
\* at the end of the value.
skipSpace(value) ==
    IF Len(value) > 0 /\ value[1] # " " THEN ParseFail
    ELSE [ok |-> TRUE, n |-> 0, rest |-> cutspace(value)]

\* time.skip for a layout prefix of one other character.
skipChar(value, ch) ==
    IF Len(value) = 0 \/ value[1] # ch THEN ParseFail
    ELSE [ok |-> TRUE, n |-> 0, rest |-> Tail(value)]

\* time.lookup(shortMonthNames, value): case-insensitive match of a prefix.
lookup(value) ==
    LET hit(i) == /\ Len(value) >= 3
                  /\ \A k \in 1..3 : lower(value[k]) = lower(shortMonthNames[i][k])
    IN IF \E i \in 1..12 : hit(i)
       THEN [ok |-> TRUE, n |-> CHOOSE i \in 1..12 : hit(i), rest |-> Drop(value, 3)]
       ELSE ParseFail

\* time.atoi on the two characters of the year "06": a sign is accepted.
parseYear(value) ==
    IF Len(value) < 2 THEN ParseFail
    ELSE LET a == Atoi(Take(value, 2))
             yy == a.n
         IN IF ~a.ok THEN ParseFail
            ELSE [ok |-> TRUE, n |-> IF yy >= 69 THEN yy + 1900 ELSE yy + 2000,
                  rest |-> Drop(value, 2)]

\* time.parseSignedOffset: the length of a "+03"-style zone, 0 if none.
parseSignedOffset(value) ==
    IF Len(value) = 0 \/ value[1] \notin {"+", "-"} THEN 0
    ELSE LET k == leadingDigits(Tail(value))
         IN IF k = 0 \/ digitsValue(SubSeq(value, 2, k + 1)) > 23 THEN 0 ELSE k + 1

\* The number of leading upper-case letters, counted up to six.
nUpper(value) ==
    IF \E k \in 0..5 : k >= Len(value) \/ ~isUpper(value[k + 1])
    THEN CHOOSE k \in 0..5 : /\ k >= Len(value) \/ ~isUpper(value[k + 1])
                             /\ \A j \in 0..(k - 1) : isUpper(value[j + 1])
    ELSE 6

\* time.parseTimeZone: the length of the zone abbreviation, 0 if there is none.
parseTimeZone(value) ==
    IF Len(value) < 3 THEN 0
    ELSE IF HasPrefix(value, <<"C", "h", "S", "T">>) \/ HasPrefix(value, <<"M", "e", "S", "T">>)
         THEN 4
    ELSE IF HasPrefix(value, <<"G", "M", "T">>)
         THEN 3 + parseSignedOffset(Drop(value, 3))
    ELSE IF value[1] \in {"+", "-"} THEN parseSignedOffset(value)
    ELSE LET u == nUpper(value)
         IN CASE u = 5 -> IF value[5] = "T" THEN 5 ELSE 0
              [] u = 4 -> IF value[4] = "T" \/ HasPrefix(value, <<"W", "I", "T", "A">>)
                          THEN 4 ELSE 0
              [] u = 3 -> 3
              [] OTHER -> 0

\* The layout element "MST".
parseZone(value) ==
    IF HasPrefix(value, UTC) THEN [ok |-> TRUE, n |-> 3, rest |-> Drop(value, 3)]
    ELSE LET n == parseTimeZone(value)
         IN IF n = 0 THEN ParseFail
            ELSE [ok |-> TRUE, n |-> n, rest |-> Drop(value, n)]

isLeap(year) == year % 4 = 0 /\ (year % 100 # 0 \/ year % 400 = 0)

daysIn(month, year) ==
    IF month = 2 THEN (IF isLeap(year) THEN 29 ELSE 28)
    ELSE IF month \in {4, 6, 9, 11} THEN 30 ELSE 31

ZeroTime == [year |-> 1, month |-> 1, day |-> 1, hour |-> 0, min |-> 0, zone |-> UTC]

(* The parse loop of time.Parse walks the layout element by element over    *)
(* what is left of the value.  st is its state: the text left, the fields   *)
(* read so far, and ok, false from the first element that does not match.   *)
parseStart(value) == [ok |-> TRUE, rest |-> value, t |-> ZeroTime]

parseBad(st) == [st EXCEPT !.ok = FALSE]

\* One layout element whose value is a number or a skipped prefix: got is
\* what reading it gave, field the field it sets ("" for a prefix).
parseStep(st, got, field, lo, hi) ==
    IF ~st.ok THEN parseBad(st)
    ELSE The({IF ~g.ok \/ g.n < lo \/ g.n > hi THEN parseBad(st)
              ELSE [st EXCEPT !.rest = g.rest,
                              !.t = IF field = "" THEN @
                                    ELSE [@ EXCEPT ![field] = g.n]]
              : g \in {got}})

\* "MST": the abbreviation is kept as written
parseTZ(st) ==
    IF ~st.ok THEN parseBad(st)
    ELSE The({IF ~z.ok THEN parseBad(st)
              ELSE [st EXCEPT !.rest = z.rest,
                              !.t = [@ EXCEPT !.zone = Take(st.rest, z.n)]]
              : z \in {parseZone(st.rest)}})

RFC822 == <<"02", " ", "Jan", " ", "06", " ", "15", ":", "04", " ", "MST">>

\* One element of the layout, read from the front of what is left.
parseElement(st, std) ==
    CASE std = "02"  -> parseStep(st, getnum(st.rest, TRUE), "day", 0, 99)
      [] std = " "   -> parseStep(st, skipSpace(st.rest), "", 0, 0)
      [] std = "Jan" -> parseStep(st, lookup(st.rest), "month", 1, 12)
      [] std = "06"  -> parseStep(st, parseYear(st.rest), "year", 1900, 2099)
      [] std = "15"  -> parseStep(st, getnum(st.rest, FALSE), "hour", 0, 23)
      [] std = ":"   -> parseStep(st, skipChar(st.rest, ":"), "", 0, 0)
      [] std = "04"  -> parseStep(st, getnum(st.rest, TRUE), "min", 0, 59)
      [] std = "MST" -> parseTZ(st)

RECURSIVE parseLayout(_, _)
parseLayout(st, layout) ==
    IF layout = <<>> THEN st
    ELSE parseLayout(The({parseElement(v, Head(layout)) : v \in {st}}), Tail(layout))

\* After the layout: no text may be left, and the day must exist in the month.
parseEnd(st) ==
    IF /\ st.ok
       /\ st.rest = <<>>
       /\ st.t.day >= 1
       /\ st.t.day <= daysIn(st.t.month, st.t.year)
    THEN [ok |-> TRUE, t |-> st.t]
    ELSE [ok |-> FALSE, t |-> ZeroTime]

\* time.Parse(time.RFC822, value): [ok, t].
Parse(value) == parseEnd(parseLayout(parseStart(value), RFC822))

TwoDigits(n) == <<Digits[((n \div 10) % 10) + 1], Digits[(n % 10) + 1]>>

\* t.Format(time.RFC822)
Format(t) ==
    TwoDigits(t.day) \o <<" ">> \o shortMonthNames[t.month] \o <<" ">>
        \o TwoDigits(t.year % 100) \o <<" ">> \o TwoDigits(t.hour) \o <<":">>
        \o TwoDigits(t.min) \o <<" ">> \o t.zone

\* time.Now() when the clock has advanced by tick minutes: 16 Jan 26 17:30 local.
Now(tick) == [year |-> 2026, month |-> 1, day |-> 16, hour |-> 17, min |-> 30 + tick,
              zone |-> LocalZone]


(***************************************************************************)
(* types.go: Review, CreateReviewRequest, NewReview                        *)
(***************************************************************************)
\* s[0:19] of Go; a shorter s makes the slice expression panic.
Slice19(s) == SubSeq(s, 1, 19)

\* NewReview as it would be if the slice were taken before the parse error is
\* looked at: an unparsable releaseDate gives the zero time, not the clock.
NewReviewNoFallback(title, director, releaseDate, rating, reviewNotes, t1, t2) ==
    LET dateString == The({Slice19(Format(parsed.t)) : parsed \in {Parse(releaseDate)}})
        dateCreated == Slice19(Format(Now(t2)))
    IN [ID |-> 0, Title |-> title, Director |-> director, ReleaseDate |-> dateString,
        Rating |-> rating, ReviewNotes |-> reviewNotes, DateCreated |-> dateCreated]

\* NewReview; t1 and t2 are the clock at its two calls of time.Now().
NewReview(title, director, releaseDate, rating, reviewNotes, t1, t2) ==
    LET dateTime(parsed) == IF parsed.ok THEN parsed.t ELSE Now(t1)
        dateString == The({Slice19(Format(dateTime(parsed))) : parsed \in {Parse(releaseDate)}})
        dateCreated == Slice19(Format(Now(t2)))
    IN [ID |-> 0, Title |-> title, Director |-> director, ReleaseDate |-> dateString,
        Rating |-> rating, ReviewNotes |-> reviewNotes, DateCreated |-> dateCreated]

(***************************************************************************)
(* encoding/json: a request body is malformed, or a JSON object, a record  *)
(* of the members it has.  Decoding fills the members the Go struct has    *)
(* and leaves the zero value in the others.                                *)
(***************************************************************************)
Member(obj, name, zero) == IF name \in DOMAIN obj THEN obj[name] ELSE zero

\* json.NewDecoder(request.Body).Decode(new(CreateReviewRequest))
DecodeCreateReviewRequest(obj) ==
    [Title |-> Member(obj, "title", ""), Director |-> Member(obj, "director", ""),
     ReleaseDate |-> Member(obj, "releaseDate", <<>>),
     Rating |-> Member(obj, "rating", ""),
     ReviewNotes |-> Member(obj, "reviewNotes", "")]

\* json.NewDecoder(request.Body).Decode(new(Review))
DecodeReview(obj) ==
    [ID |-> Member(obj, "id", 0), Title |-> Member(obj, "title", ""),
     Director |-> Member(obj, "director", ""),
     ReleaseDate |-> Member(obj, "releaseDate", <<>>),
     Rating |-> Member(obj, "rating", ""),
     ReviewNotes |-> Member(obj, "reviewNotes", ""),
     DateCreated |-> Member(obj, "dateCreated", <<>>)]

(***************************************************************************)
(* Errors are the chain of messages fmt.Errorf("...: %w") builds; nil is   *)
(* the empty chain.                                                        *)
(***************************************************************************)
NilErr == <<>>

Errorf(message, err) == <<message>> \o err

\* What the driver reports when the statement's context expires or the
\* connection fails.
DriverErr == <<"context deadline exceeded">>

ErrNoRows == <<"sql: no rows in result set">>

(***************************************************************************)
(* What can go wrong outside the program while one request is handled:     *)
(*   dbFailed    - the statement fails and is not applied                  *)
(*   dbLost      - the statement is applied, but the deadline of its       *)
(*                 context passes before the result arrives                *)
(*   writeFailed - the response cannot be written to the connection        *)
(***************************************************************************)
Faults == {"none", "dbFailed", "dbLost", "writeFailed"}

stmtErr(fault) == fault \in {"dbFailed", "dbLost"}

stmtApplied(fault) == fault # "dbFailed"

(***************************************************************************)
(* storage.go: the table public.reviews (rows, a function from id to the   *)
(* other columns, and seq, the last value of the SERIAL id) and the four   *)
(* prepared statements.                                                    *)
(***************************************************************************)
ZeroRow == [title |-> "", director |-> "", releaseDate |-> <<>>, rating |-> "",
            reviewNotes |-> "", dateCreated |-> <<>>]

\* An INSERT whose id is the number of rows plus one instead of the next
\* value of the sequence: the id of a deleted row is handed out again.
stmtCreateCountsRows(table, serial, review) ==
    LET id == Cardinality(DOMAIN table) + 1
        row == [title |-> review.Title, director |-> review.Director,
                releaseDate |-> review.ReleaseDate, rating |-> review.Rating,
                reviewNotes |-> review.ReviewNotes, dateCreated |-> review.DateCreated]
    IN [rows |-> [i \in DOMAIN table \cup {id} |-> IF i = id THEN row ELSE table[i]],
        seq |-> serial + 1]

\* The six columns the INSERT is given of a Review.
RowOfReview(review) ==
    [title |-> review.Title, director |-> review.Director,
     releaseDate |-> review.ReleaseDate, rating |-> review.Rating,
     reviewNotes |-> review.ReviewNotes, dateCreated |-> review.DateCreated]

\* INSERT INTO public.reviews (title,director,releaseDate,rating,reviewNotes,dateCreated)
stmtCreate(table, serial, review) ==
    LET id == serial + 1
        row == [title |-> review.Title, director |-> review.Director,
                releaseDate |-> review.ReleaseDate, rating |-> review.Rating,
                reviewNotes |-> review.ReviewNotes, dateCreated |-> review.DateCreated]
    IN [rows |-> [i \in DOMAIN table \cup {id} |-> IF i = id THEN row ELSE table[i]],
        seq |-> id]

\* An UPDATE that counts only the rows whose values changed.
stmtUpdateCountsChanged(table, review) ==
    LET row == IF review.ID \in DOMAIN table
               THEN [table[review.ID] EXCEPT !.title = review.Title,
                                             !.director = review.Director,
                                             !.releaseDate = review.ReleaseDate,
                                             !.rating = review.Rating,
                                             !.reviewNotes = review.ReviewNotes]
               ELSE ZeroRow
    IN IF review.ID \in DOMAIN table /\ row # table[review.ID]
       THEN [rows |-> [table EXCEPT ![review.ID] = row], rowsAffected |-> 1]
       ELSE [rows |-> table, rowsAffected |-> 0]

\* An UPDATE that writes every column of the Review, dateCreated included.
stmtUpdateAllColumns(table, review) ==
    IF review.ID \in DOMAIN table
    THEN [rows |-> [table EXCEPT ![review.ID] =
                       [title |-> review.Title, director |-> review.Director,
                        releaseDate |-> review.ReleaseDate, rating |-> review.Rating,
                        reviewNotes |-> review.ReviewNotes,
                        dateCreated |-> review.DateCreated]],
          rowsAffected |-> 1]
    ELSE [rows |-> table, rowsAffected |-> 0]

\* An UPDATE whose WHERE clause is missing: every row is written.
stmtUpdateNoWhere(table, review) ==
    [rows |-> [i \in DOMAIN table |->
                 [table[i] EXCEPT !.title = review.Title, !.director = review.Director,
                                  !.releaseDate = review.ReleaseDate,
                                  !.rating = review.Rating,
                                  !.reviewNotes = review.ReviewNotes]],
     rowsAffected |-> IF review.ID \in DOMAIN table THEN 1 ELSE 0]

\* UPDATE public.reviews SET title, director, releaseDate, rating, reviewNotes WHERE id
stmtUpdate(table, review) ==
    IF review.ID \in DOMAIN table
    THEN [rows |-> [table EXCEPT ![review.ID] =
                       [@ EXCEPT !.title = review.Title, !.director = review.Director,
                                 !.releaseDate = review.ReleaseDate,
                                 !.rating = review.Rating,
                                 !.reviewNotes = review.ReviewNotes]],
          rowsAffected |-> 1]
    ELSE [rows |-> table, rowsAffected |-> 0]

\* A DELETE that marks the row instead of removing it.
stmtDeleteSoft(table, id) ==
    [rows |-> table, rowsAffected |-> IF id \in DOMAIN table THEN 1 ELSE 0]

\* DELETE FROM public.reviews WHERE id
stmtDelete(table, id) ==
    IF id \in DOMAIN table
    THEN [rows |-> [i \in DOMAIN table \ {id} |-> table[i]], rowsAffected |-> 1]
    ELSE [rows |-> table, rowsAffected |-> 0]

ZeroReview == [ID |-> 0, Title |-> "", Director |-> "", ReleaseDate |-> <<>>,
               Rating |-> "", ReviewNotes |-> "", DateCreated |-> <<>>]

\* SELECT id, title, director, releaseDate, rating, reviewNotes, dateCreated WHERE id
stmtGetById(table, id) ==
    IF id \in DOMAIN table
    THEN [found |-> TRUE,
          review |-> [ID |-> id, Title |-> table[id].title,
                      Director |-> table[id].director,
                      ReleaseDate |-> table[id].releaseDate,
                      Rating |-> table[id].rating,
                      ReviewNotes |-> table[id].reviewNotes,
                      DateCreated |-> table[id].dateCreated]]
    ELSE [found |-> FALSE, review |-> ZeroReview]

\* CreateReview as it would be if the INSERT named the id column and took
\* the id of the Review it is given.
CreateReviewGivenId(table, serial, review, fault) ==
    LET done == [rows |-> [i \in DOMAIN table \cup {review.ID} |->
                             IF i = review.ID THEN RowOfReview(review) ELSE table[i]],
                 seq |-> serial + 1]
    IN [rows |-> IF stmtApplied(fault) THEN done.rows ELSE table,
        seq |-> IF stmtApplied(fault) THEN done.seq ELSE serial,
        err |-> IF stmtErr(fault) THEN Errorf("failed to create review", DriverErr)
                ELSE NilErr]

\* CreateReview over a statement that is applied even when it fails.
CreateReviewFailedApplied(table, serial, review, fault) ==
    LET done == stmtCreate(table, serial, review)
    IN [rows |-> done.rows,
        seq |-> done.seq,
        err |-> IF stmtErr(fault) THEN Errorf("failed to create review", DriverErr)
                ELSE NilErr]

\* PgDb.CreateReview
CreateReview(table, serial, review, fault) ==
    LET done == stmtCreate(table, serial, review)
    IN [rows |-> IF stmtApplied(fault) THEN done.rows ELSE table,
        seq |-> IF stmtApplied(fault) THEN done.seq ELSE serial,
        err |-> IF stmtErr(fault) THEN Errorf("failed to create review", DriverErr)
                ELSE NilErr]

\* UpdateReview without the check of RowsAffected.
UpdateReviewNoRowsCheck(table, review, fault) ==
    LET done == stmtUpdate(table, review)
    IN [rows |-> IF stmtApplied(fault) THEN done.rows ELSE table,
        err |-> IF stmtErr(fault) THEN Errorf("failed to update review", DriverErr)
                ELSE NilErr]

\* PgDb.UpdateReview
UpdateReview(table, review, fault) ==
    LET done == stmtUpdate(table, review)
    IN [rows |-> IF stmtApplied(fault) THEN done.rows ELSE table,
        err |-> IF stmtErr(fault) THEN Errorf("failed to update review", DriverErr)
                ELSE IF done.rowsAffected = 0
                     THEN <<"review with id %d not found">> \o Itoa(review.ID)
                     ELSE NilErr]

\* DeleteReview without the check of RowsAffected.
DeleteReviewNoRowsCheck(table, id, fault) ==
    LET done == stmtDelete(table, id)
    IN [rows |-> IF stmtApplied(fault) THEN done.rows ELSE table,
        err |-> IF stmtErr(fault) THEN Errorf("failed to delete review", DriverErr)
                ELSE NilErr]

\* PgDb.DeleteReview
DeleteReview(table, id, fault) ==
    LET done == stmtDelete(table, id)
    IN [rows |-> IF stmtApplied(fault) THEN done.rows ELSE table,
        err |-> IF stmtErr(fault) THEN Errorf("failed to delete review", DriverErr)
                ELSE IF done.rowsAffected = 0
                     THEN <<"review with id %d not found">> \o Itoa(id)
                     ELSE NilErr]

\* PgDb.GetReviewById
GetReviewById(table, id, fault) ==
    LET got == stmtGetById(table, id)
    IN IF stmtErr(fault)
       THEN [review |-> ZeroReview, err |-> Errorf("failed to get review", DriverErr)]
       ELSE IF ~got.found
            THEN [review |-> ZeroReview, err |-> Errorf("failed to get review", ErrNoRows)]
            ELSE [review |-> got.review, err |-> NilErr]


(***************************************************************************)
(* api.go: the response writer, WriteJSON and makeHttpHandleFunc.          *)
(* A writer holds the header map (the Content-Type in header), the status  *)
(* line once it is written (status, 0 before; sentType is the Content-Type *)
(* that went out with it), the JSON values written to the body, and the    *)
(* number of calls of WriteHeader (headerCalls).                           *)
(***************************************************************************)
StatusOK == 200

StatusBadRequest == 400

NewWriter ==
    [header |-> "", status |-> 0, sentType |-> "", body |-> <<>>, headerCalls |-> 0]

\* writer.WriteHeader(status): the first call sends the status line and the
\* headers as they are then; a later call is ignored by net/http.
WriteHeader(writer, status) ==
    IF writer.status = 0
    THEN [writer EXCEPT !.status = status, !.sentType = writer.header,
                        !.headerCalls = @ + 1]
    ELSE [writer EXCEPT !.headerCalls = @ + 1]

\* json.NewEncoder(writer).Encode(anyVar): the values of the model always
\* marshal; the write to the connection is what can fail.
Encode(writer, anyVar, fault) ==
    IF fault = "writeFailed"
    THEN [w |-> writer, err |-> <<"write: broken pipe">>]
    ELSE [w |-> [writer EXCEPT !.body = Append(@, anyVar)], err |-> NilErr]

\* WriteJSON as it would be if the header were set after the status line.
WriteJSONHeaderLate(writer, status, anyVar, fault) ==
    LET w2 == WriteHeader(writer, status)
        w1 == [w2 EXCEPT !.header = "application/json"]
    IN Encode(w1, anyVar, fault)

WriteJSON(writer, status, anyVar, fault) ==
    LET w1 == [writer EXCEPT !.header = "application/json"]
        w2 == WriteHeader(w1, status)
    IN Encode(w2, anyVar, fault)

ApiError(err) == [Error |-> err]

\* A wrapper that answers a not-found error with 404.
makeHttpHandleFuncByKind(h, fault) ==
    IF h.err # NilErr
    THEN WriteJSON(h.w,
                   IF h.serr # NilErr /\ ~(DriverErr[1] \in {h.serr[i] : i \in DOMAIN h.serr})
                   THEN 404 ELSE StatusBadRequest,
                   ApiError(h.err), fault).w
    ELSE h.w

\* The wrapper of every route; h is what the wrapped handler did and returned.
makeHttpHandleFunc(h, fault) ==
    IF h.err # NilErr
    THEN WriteJSON(h.w, StatusBadRequest, ApiError(h.err), fault).w
    ELSE h.w

(***************************************************************************)
(* api.go: the four handlers.  Each yields the table after it, the writer  *)
(* after it, the error it returns, whether it called the store and the     *)
(* error the store returned.                                               *)
(***************************************************************************)
Returned(table, serial, writer, err, called, serr) ==
    [rows |-> table, seq |-> serial, w |-> writer, err |-> err, called |-> called,
     serr |-> serr]

\* chi.URLParam(request, "id") is path.
handleGetReview(table, serial, path, fault) ==
    LET id == Atoi(path)
        got == GetReviewById(table, id.n, fault)
        out == WriteJSON(NewWriter, StatusOK, got.review, fault)
    IN IF ~id.ok
       THEN Returned(table, serial, NewWriter,
                     Errorf("invalid id", <<"strconv.Atoi: invalid syntax">>),
                     FALSE, NilErr)
       ELSE IF got.err # NilErr
            THEN Returned(table, serial, NewWriter,
                          Errorf("review not found", got.err), TRUE, got.err)
            ELSE Returned(table, serial, out.w, out.err, TRUE, NilErr)

\* handleCreateReview as it would be if the request struct had a dateCreated
\* field that the handler copied into the Review.
handleCreateReviewClientDate(table, serial, body, fault, t1, t2) ==
    LET createReviewRequest == DecodeCreateReviewRequest(body.obj)
        persist(review) ==
            LET made == CreateReview(table, serial, review, fault)
                out == WriteJSON(NewWriter, StatusOK, review, fault)
            IN IF made.err # NilErr
               THEN Returned(made.rows, made.seq, NewWriter, made.err, TRUE, made.err)
               ELSE Returned(made.rows, made.seq, out.w, out.err, TRUE, NilErr)
    IN IF ~body.valid
       THEN Returned(table, serial, NewWriter, <<"json: cannot decode">>, FALSE, NilErr)
       ELSE The({persist([review EXCEPT
                            !.DateCreated = Member(body.obj, "dateCreated", @)]) :
                 review \in {NewReview(createReviewRequest.Title,
                                       createReviewRequest.Director,
                                       createReviewRequest.ReleaseDate,
                                       createReviewRequest.Rating,
                                       createReviewRequest.ReviewNotes, t1, t2)}})

handleCreateReview(table, serial, body, fault, t1, t2) ==
    LET createReviewRequest == DecodeCreateReviewRequest(body.obj)
        persist(review) ==
            LET made == CreateReview(table, serial, review, fault)
                out == WriteJSON(NewWriter, StatusOK, review, fault)
            IN IF made.err # NilErr
               THEN Returned(made.rows, made.seq, NewWriter, made.err, TRUE, made.err)
               ELSE Returned(made.rows, made.seq, out.w, out.err, TRUE, NilErr)
    IN IF ~body.valid
       THEN Returned(table, serial, NewWriter, <<"json: cannot decode">>, FALSE, NilErr)
       ELSE The({persist(review) :
                 review \in {NewReview(createReviewRequest.Title,
                                       createReviewRequest.Director,
                                       createReviewRequest.ReleaseDate,
                                       createReviewRequest.Rating,
                                       createReviewRequest.ReviewNotes, t1, t2)}})

handleDeleteReview(table, serial, path, fault) ==
    LET id == Atoi(path)
        gone == DeleteReview(table, id.n, fault)
        out == WriteJSON(NewWriter, StatusOK, [deleted |-> "success"], fault)
    IN IF ~id.ok
       THEN Returned(table, serial, NewWriter,
                     Errorf("invalid id", <<"strconv.Atoi: invalid syntax">>),
                     FALSE, NilErr)
       ELSE IF gone.err # NilErr
            THEN Returned(gone.rows, serial, NewWriter, gone.err, TRUE, gone.err)
            ELSE Returned(gone.rows, serial, out.w, out.err, TRUE, NilErr)

\* handleUpdateReview without "updateReview.ID = id".
handleUpdateReviewBodyId(table, serial, path, body, fault) ==
    LET id == Atoi(path)
        updateReview == DecodeReview(body.obj)
        done == UpdateReview(table, updateReview, fault)
        out == WriteJSON(NewWriter, StatusOK, updateReview, fault)
    IN IF ~id.ok
       THEN Returned(table, serial, NewWriter,
                     Errorf("invalid id", <<"strconv.Atoi: invalid syntax">>),
                     FALSE, NilErr)
       ELSE IF ~body.valid
            THEN Returned(table, serial, NewWriter, <<"json: cannot decode">>,
                          FALSE, NilErr)
            ELSE IF done.err # NilErr
                 THEN Returned(done.rows, serial, NewWriter, done.err, TRUE, done.err)
                 ELSE Returned(done.rows, serial, out.w, out.err, TRUE, NilErr)

\* handleUpdateReview as it would be if the error of Decode were looked at
\* only after the store was called.
handleUpdateReviewLateDecodeCheck(table, serial, path, body, fault) ==
    LET id == Atoi(path)
        updateReview == [DecodeReview(body.obj) EXCEPT !.ID = id.n]
        done == UpdateReview(table, updateReview, fault)
        out == WriteJSON(NewWriter, StatusOK, updateReview, fault)
    IN IF ~id.ok
       THEN Returned(table, serial, NewWriter,
                     Errorf("invalid id", <<"strconv.Atoi: invalid syntax">>),
                     FALSE, NilErr)
       ELSE IF ~body.valid
            THEN Returned(done.rows, serial, NewWriter, <<"json: cannot decode">>,
                          TRUE, done.err)
            ELSE IF done.err # NilErr
                 THEN Returned(done.rows, serial, NewWriter, done.err, TRUE, done.err)
                 ELSE Returned(done.rows, serial, out.w, out.err, TRUE, NilErr)

handleUpdateReview(table, serial, path, body, fault) ==
    LET id == Atoi(path)
        updateReview == [DecodeReview(body.obj) EXCEPT !.ID = id.n]
        done == UpdateReview(table, updateReview, fault)
        out == WriteJSON(NewWriter, StatusOK, updateReview, fault)
    IN IF ~id.ok
       THEN Returned(table, serial, NewWriter,
                     Errorf("invalid id", <<"strconv.Atoi: invalid syntax">>),
                     FALSE, NilErr)
       ELSE IF ~body.valid
            THEN Returned(table, serial, NewWriter, <<"json: cannot decode">>,
                          FALSE, NilErr)
            ELSE IF done.err # NilErr
                 THEN Returned(done.rows, serial, NewWriter, done.err, TRUE, done.err)
                 ELSE Returned(done.rows, serial, out.w, out.err, TRUE, NilErr)

(***************************************************************************)
(* The requests the model sends                                            *)
(***************************************************************************)
Malformed == [valid |-> FALSE, obj |-> [malformed |-> TRUE]]

Object(obj) == [valid |-> TRUE, obj |-> obj]

Date1 == <<"1", "6", " ", "J", "u", "l", " ", "1", "0", " ", "0", "0", ":", "0", "0",
           " ", "U", "T", "C">>

NotADate == <<"n", "o", "t", "-", "a", "-", "d", "a", "t", "e">>

\* The releaseDate of the README's update example: no zone.
Date2 == <<"1", "6", " ", "J", "u", "l", " ", "1", "0", " ", "0", "0", ":", "0", "0">>

CreateObject(releaseDate) ==
    [title |-> "Inception", director |-> "Christopher Nolan",
     releaseDate |-> releaseDate, rating |-> "9/10", reviewNotes |-> "Great"]

CreateBodies ==
    {Malformed,
     Object(CreateObject(Date1)),
     Object(CreateObject(NotADate)),
     Object([title |-> "Inception", director |-> "Christopher Nolan",
             rating |-> "9/10", reviewNotes |-> "Great", dateCreated |-> Date1])}

UpdateObject ==
    [title |-> "Inception (Director's Cut)", director |-> "Christopher Nolan",
     releaseDate |-> Date2, rating |-> "10/10", reviewNotes |-> "Even better"]

UpdateBodies ==
    {Malformed,
     Object(UpdateObject),
     Object([id |-> 2, title |-> "Inception (Director's Cut)",
             director |-> "Christopher Nolan", releaseDate |-> Date2,
             rating |-> "10/10", reviewNotes |-> "Even better",
             dateCreated |-> Date1])}

PathParams == {<<"0">>, <<"1">>, <<"2">>, <<"a", "b", "c">>}

(***************************************************************************)
(* sql.DB as InitializeClientAndDB configures it, and the http.Server as   *)
(* RunNewServer starts it.                                                 *)
(***************************************************************************)
maxOpenConns == 25

maxIdleConns == 25

\* The pool: numOpen connections are open, free of them are idle in the
\* pool, waiting operations are queued for a connection; event is what the
\* pool did last.
NewPool == [numOpen |-> 0, free |-> 0, waiting |-> 0, event |-> "none"]

\* The server: it listens and serves, inflight handlers are running; grace
\* counts the seconds since Shutdown was called, killed the handlers that the
\* end of the process cut off, late says that a connection was accepted
\* after the signal.
NewServer ==
    [phase |-> "serving", listening |-> TRUE, inflight |-> 0, grace |-> 0,
     killed |-> 0, late |-> FALSE, signal |-> "none"]

(***************************************************************************)
(* State                                                                   *)
(***************************************************************************)
VARIABLES
    rows,   \* the table public.reviews: id -> the other columns
    seq,    \* the last value the SERIAL column id has handed out
    now,    \* the server clock when it was read last, in minutes since the start
    last,   \* the request handled last and the response written to it
    pre,    \* the table as it was when that request arrived
    pool,   \* the connection pool of sql.DB
    srv     \* the http.Server and the process around it

vars == <<rows, seq, now, last, pre, pool, srv>>

NoRows == [i \in {} |-> 0]

\* What last records of a request: the request, the fault it met, whether the
\* handler called the store and the error the store returned, the response,
\* and at, the clock when a create request read it first (0 for a request
\* that does not read the clock).
Request(op, path, body, fault, at, h) ==
    [op |-> op, path |-> path, body |-> body, fault |-> fault, at |-> at,
     called |-> h.called, serr |-> h.serr, w |-> makeHttpHandleFunc(h, fault)]

Init ==
    /\ pool = NewPool
    /\ srv = NewServer
    /\ rows = NoRows
    /\ seq = 0
    /\ now = 0
    /\ pre = NoRows
    /\ last = [op |-> "none", path |-> <<>>, body |-> Malformed, fault |-> "none",
               at |-> 0, called |-> FALSE, serr |-> NilErr, w |-> NewWriter]

\* router.Post("/review", makeHttpHandleFunc(server.handleCreateReview))
\* The clock has moved on to t1 when NewReview reads it first, and to t2 when
\* it reads it again; a request whose body does not decode never reads it.
PostOf(bodies) ==
    /\ seq < MaxCreates
    /\ \E body \in bodies, fault \in Faults :
          \E t1 \in IF body.valid THEN now..MaxNow ELSE {now} :
          \E t2 \in IF body.valid THEN t1..MaxNow ELSE {now} :
             \E h \in {handleCreateReview(rows, seq, body, fault, t1, t2)} :
                /\ rows' = h.rows
                /\ seq' = h.seq
                /\ now' = t2
                /\ pre' = rows
                /\ last' = Request("POST", <<>>, body, fault,
                                   IF body.valid THEN t1 ELSE 0, h)
                /\ UNCHANGED <<pool, srv>>

Post == PostOf(CreateBodies)

\* router.Get("/review/{id}", makeHttpHandleFunc(server.handleGetReview))
Get ==
    \E path \in PathParams, fault \in Faults :
        \E h \in {handleGetReview(rows, seq, path, fault)} :
           /\ rows' = h.rows
           /\ seq' = h.seq
           /\ pre' = rows
           /\ last' = Request("GET", path, Malformed, fault, 0, h)
           /\ UNCHANGED <<now, pool, srv>>

\* router.Delete("/review/{id}", makeHttpHandleFunc(server.handleDeleteReview))
Delete ==
    \E path \in PathParams, fault \in Faults :
        \E h \in {handleDeleteReview(rows, seq, path, fault)} :
           /\ rows' = h.rows
           /\ seq' = h.seq
           /\ pre' = rows
           /\ last' = Request("DELETE", path, Malformed, fault, 0, h)
           /\ UNCHANGED <<now, pool, srv>>

\* router.Put("/review/{id}", makeHttpHandleFunc(server.handleUpdateReview))
PutOf(bodies) ==
    \E path \in PathParams, body \in bodies, fault \in Faults :
        \E h \in {handleUpdateReview(rows, seq, path, body, fault)} :
           /\ rows' = h.rows
           /\ seq' = h.seq
           /\ pre' = rows
           /\ last' = Request("PUT", path, body, fault, 0, h)
           /\ UNCHANGED <<now, pool, srv>>

Put == PutOf(UpdateBodies)

Next == Post \/ Get \/ Delete \/ Put

Spec == Init /\ [][Next]_vars


(***************************************************************************)
(* Vocabulary of the properties                                            *)
(***************************************************************************)
\* The status line and the body of the response to the last request.
Status == last.w.status

Body == last.w.body

\* The id the last request carries in its path.
PathId == Atoi(last.path).n

\* The last request reached the store with this fault-free or faulty outcome.
DbFault == last.fault \in {"dbFailed", "dbLost"}

\* The ids the table has held at some time: SERIAL hands out 1, 2, ...
Created == 1..seq

\* An error that says no row matched.
IsNotFound(err) ==
    \E i \in DOMAIN err : err[i] \in {"review with id %d not found", ErrNoRows[1]}

\* A response body that is one error envelope {"Error": message}.
IsErrorEnvelope(body) ==
    /\ Len(body) = 1
    /\ DOMAIN body[1] = {"Error"}
    /\ body[1].Error # NilErr

DeletedSuccess == [deleted |-> "success"]

\* The row a Review is stored as.
RowOf(review) ==
    [title |-> review.Title, director |-> review.Director,
     releaseDate |-> review.ReleaseDate, rating |-> review.Rating,
     reviewNotes |-> review.ReviewNotes, dateCreated |-> review.DateCreated]

\* The last request was a create whose body decoded: its releaseDate member.
PostedReleaseDate == DecodeCreateReviewRequest(last.body.obj).ReleaseDate

ValidPost == last.op = "POST" /\ last.body.valid

\* The last request inserted the row with id seq.
Inserted == seq \in DOMAIN rows /\ seq \notin DOMAIN pre

\* The documented normalized form: the date and the time of t, without the zone.
DateAndTimeOnly(t) == Take(Format(t), Len(Format(t)) - Len(t.zone) - 1)

\* The id member of the body of the last request, 0 when it has none.
BodyId == Member(last.body.obj, "id", 0)

(***************************************************************************)
(* C1: for every valid create request (the body decodes, the insert        *)
(* succeeds), the Review in the 200 response has a non-zero id, the id the *)
(* database gave the new row.                                              *)
(***************************************************************************)
C1_CreateReturnsAssignedId ==
    (ValidPost /\ Status = StatusOK /\ Body # <<>>)
        => (Body[1].ID # 0 /\ Body[1].ID = seq)

(***************************************************************************)
(* C2: round trip.  After a create answered 200, a GET /review/{id} with   *)
(* the id of the create response succeeds and returns a Review equal field *)
(* for field to the one create returned.                                   *)
(***************************************************************************)
C2_CreateThenGetRoundTrip ==
    [][(/\ ValidPost
        /\ Status = StatusOK
        /\ Body # <<>>
        /\ last'.op = "GET"
        /\ last'.path = Itoa(Body[1].ID)
        /\ last'.fault = "none"
        /\ Get)
           => (last'.w.status = StatusOK /\ last'.w.body = Body)]_vars

(***************************************************************************)
(* C3: for every id that is not in the store, getById, update and delete   *)
(* never report success: the store returns an error, the not-found error   *)
(* whenever the statement itself ran, and the request is answered 400.     *)
(***************************************************************************)
C3_AbsentIdIsNotFound ==
    (last.op \in {"GET", "PUT", "DELETE"} /\ last.called /\ PathId \notin DOMAIN pre)
        => /\ last.serr # NilErr
           /\ ~DbFault => IsNotFound(last.serr)
           /\ Status = StatusBadRequest
           /\ PathId \notin DOMAIN rows

C3_Witness ==
    /\ last.op = "PUT"
    /\ last.called
    /\ last.fault = "none"
    /\ PathId \notin DOMAIN pre
    /\ pre # NoRows
    /\ IsNotFound(last.serr)

(***************************************************************************)
(* C4: delete is not idempotent.  A delete of an id that is in the store   *)
(* succeeds (unless the statement fails), and a delete of the same id that *)
(* follows a successful one is answered with the not-found failure.        *)
(***************************************************************************)
C4_DeleteTwice ==
    [][(last'.op = "DELETE" /\ Delete) =>
         /\ (Atoi(last'.path).n \in DOMAIN rows /\ last'.called /\ last'.fault = "none")
               => (last'.w.status = StatusOK /\ Atoi(last'.path).n \notin DOMAIN rows')
         /\ (last.op = "DELETE" /\ Status = StatusOK /\ last'.path = last.path)
               => /\ last'.w.status = StatusBadRequest
                  /\ last'.serr # NilErr
                  /\ last'.fault \notin {"dbFailed", "dbLost"} => IsNotFound(last'.serr)
                  /\ rows' = rows]_vars

C4_Witness ==
    /\ last.op = "DELETE"
    /\ last.called
    /\ last.fault = "none"
    /\ PathId \in Created
    /\ PathId \notin DOMAIN pre
    /\ Status = StatusBadRequest
    /\ IsNotFound(last.serr)

(***************************************************************************)
(* C5: a DELETE /review/{id} for an id in the store answers 200 with the   *)
(* body {"deleted":"success"}, the row is gone, and every later            *)
(* GET /review/{id} for that id answers 400 with a not-found envelope.     *)
(***************************************************************************)
C5_DeleteThenGetNotFound ==
    /\ (last.op = "DELETE" /\ last.called /\ PathId \in DOMAIN pre)
          => /\ last.fault = "none" => (Status = StatusOK /\ Body = <<DeletedSuccess>>)
             /\ Status = StatusOK
                   => /\ \A i \in DOMAIN Body : Body[i] = DeletedSuccess
                      /\ PathId \notin DOMAIN rows
    /\ (last.op = "GET" /\ last.called /\ PathId \in Created /\ PathId \notin DOMAIN pre)
          => /\ Status = StatusBadRequest
             /\ last.fault # "writeFailed"
                   => (IsErrorEnvelope(Body) /\ Body[1].Error[1] = "review not found")
    /\ \A id \in DOMAIN rows \ DOMAIN pre : ValidPost /\ id = seq

C5_Witness ==
    /\ last.op = "GET"
    /\ last.called
    /\ last.fault = "none"
    /\ PathId \in Created
    /\ PathId \notin DOMAIN pre
    /\ IsErrorEnvelope(Body)

(***************************************************************************)
(* C6: update is idempotent on retry.  When a PUT that succeeded is sent   *)
(* again, with the same id and the same payload, it succeeds again (unless *)
(* the statement fails) and the table is as the first one left it.         *)
(***************************************************************************)
C6_UpdateIdempotent ==
    [][(/\ last.op = "PUT"
        /\ Status = StatusOK
        /\ last'.op = "PUT"
        /\ last'.path = last.path
        /\ last'.body = last.body
        /\ Put)
           => /\ rows' = rows
              /\ last'.fault \notin {"dbFailed", "dbLost"} => last'.w.status = StatusOK]_vars

C6_Witness ==
    /\ last.op = "PUT"
    /\ last.fault = "none"
    /\ Status = StatusOK
    /\ PathId \in DOMAIN pre
    /\ pre = rows

(***************************************************************************)
(* C7: every response to a request on one of the four routes has status    *)
(* 200 or 400, whatever the failure, and a 400 carries one error envelope  *)
(* {"Error": message}.                                                     *)
(***************************************************************************)
C7_OnlyStatus200Or400 ==
    last.op # "none"
        => /\ Status \in {StatusOK, StatusBadRequest}
           /\ Status = StatusBadRequest
                 => /\ last.fault # "writeFailed" => IsErrorEnvelope(Body)
                    /\ \A i \in DOMAIN Body : DOMAIN Body[i] = {"Error"}

C7_Witness ==
    /\ last.op = "DELETE"
    /\ last.called
    /\ last.fault = "none"
    /\ PathId \notin DOMAIN pre
    /\ Status = StatusBadRequest
    /\ IsErrorEnvelope(Body)

(***************************************************************************)
(* C8: a create request whose releaseDate does not parse is not rejected   *)
(* for that: unless the insert itself fails the review is created, with a  *)
(* releaseDate made from the clock at the call.                            *)
(***************************************************************************)
C8_BadDateFallsBackToNow ==
    (ValidPost /\ ~Parse(PostedReleaseDate).ok)
        => /\ last.called
           /\ ~DbFault
                 => /\ Status = StatusOK
                    /\ Inserted
                    /\ rows[seq].releaseDate = Take(Format(Now(last.at)), 19)
           /\ Inserted
                 => /\ rows[seq].releaseDate # Take(Format(ZeroTime), 19)
                    /\ rows[seq].title = DecodeCreateReviewRequest(last.body.obj).Title

C8_Witness ==
    /\ ValidPost
    /\ PostedReleaseDate = NotADate
    /\ last.fault = "none"
    /\ Status = StatusOK
    /\ Inserted

(***************************************************************************)
(* C9: for every releaseDate that parses, the normalized releaseDate is    *)
(* the date and the time in the fixed format, without the zone: the        *)
(* README's "16 Jul 10 00:00 UTC" gives "16 Jul 10 00:00".                 *)
(***************************************************************************)
C9_NormalizedDateHasNoZone ==
    (ValidPost /\ Parse(PostedReleaseDate).ok /\ Inserted)
        => rows[seq].releaseDate = DateAndTimeOnly(Parse(PostedReleaseDate).t)

(***************************************************************************)
(* C10: in PUT /review/{id} the id of the path overrides the id of the     *)
(* body: the update goes to the row of the path id, every other row, the   *)
(* row of the body id included, is left as it was, and the Review returned *)
(* carries the path id.                                                    *)
(***************************************************************************)
C10_PathIdOverridesBodyId ==
    (last.op = "PUT" /\ last.called)
        => /\ DOMAIN rows = DOMAIN pre
           /\ \A i \in DOMAIN pre : i # PathId => rows[i] = pre[i]
           /\ (PathId \in DOMAIN pre /\ last.fault # "dbFailed")
                 => rows[PathId] = [RowOf(DecodeReview(last.body.obj))
                                       EXCEPT !.dateCreated = pre[PathId].dateCreated]
           /\ (Status = StatusOK /\ Body # <<>>) => Body[1].ID = PathId
           /\ (~DbFault /\ PathId \notin DOMAIN pre) => Status = StatusBadRequest

C10_Witness ==
    /\ last.op = "PUT"
    /\ last.called
    /\ last.fault = "none"
    /\ Status = StatusOK
    /\ BodyId \in DOMAIN pre
    /\ BodyId # PathId
    /\ pre[BodyId] # RowOf(DecodeReview(last.body.obj))
    /\ rows[PathId] # pre[PathId]
    /\ Body[1].ID = PathId

C12_DateCreatedIsServerTime ==
    ValidPost
        => /\ last.at <= now
           /\ Inserted => rows[seq].dateCreated = Take(Format(Now(now)), 19)
           /\ (Status = StatusOK /\ Body # <<>>)
                 => Body[1].DateCreated = Take(Format(Now(now)), 19)

C12_Witness ==
    /\ ValidPost
    /\ last.fault = "none"
    /\ Status = StatusOK
    /\ Inserted
    /\ now > 0
    /\ "dateCreated" \in DOMAIN last.body.obj
    /\ last.body.obj.dateCreated # rows[seq].dateCreated

(***************************************************************************)
(* The Storage interface called directly, with any Review and any id, not  *)
(* only those the handlers build: one action per method of PgDb.           *)
(***************************************************************************)
\* What can go wrong while one statement runs.
StoreFaults == {"none", "dbFailed", "dbLost"}

\* The Reviews the model hands to the store.
StoreReviews ==
    {[ID |-> id, Title |-> title, Director |-> "Christopher Nolan",
      ReleaseDate |-> Date2, Rating |-> "9/10", ReviewNotes |-> "Great",
      DateCreated |-> dateCreated] :
        id \in {0, 1, 2}, title \in {"Inception", "Tenet"},
        dateCreated \in {Slice19(Format(Now(0))), Date1}}

\* The ids the model hands to the store.
StoreIds == {0, 1, 2}

\* What last records of a call of the store: the method, its argument, the
\* fault it met, the SERIAL value before it, and what it returned.
StoreCall(op, review, id, fault, serial, err, got) ==
    [op |-> op, review |-> review, id |-> id, fault |-> fault, serial |-> serial,
     err |-> err, got |-> got]

StoreInit ==
    /\ pool = NewPool
    /\ srv = NewServer
    /\ rows = NoRows
    /\ seq = 0
    /\ now = 0
    /\ pre = NoRows
    /\ last = StoreCall("none", ZeroReview, 0, "none", 0, NilErr, ZeroReview)

\* pg.CreateReview(ctx, review)
StoreCreate ==
    /\ seq < MaxCreates
    /\ \E review \in StoreReviews, fault \in StoreFaults :
          \E made \in {CreateReview(rows, seq, review, fault)} :
             /\ rows' = made.rows
             /\ seq' = made.seq
             /\ pre' = rows
             /\ last' = StoreCall("create", review, review.ID, fault, seq, made.err,
                                  ZeroReview)
             /\ UNCHANGED <<now, pool, srv>>

\* pg.UpdateReview(ctx, review)
StoreUpdate ==
    \E review \in StoreReviews, fault \in StoreFaults :
        \E done \in {UpdateReview(rows, review, fault)} :
           /\ rows' = done.rows
           /\ pre' = rows
           /\ last' = StoreCall("update", review, review.ID, fault, seq, done.err,
                                ZeroReview)
           /\ UNCHANGED <<seq, now, pool, srv>>

\* pg.DeleteReview(ctx, id)
StoreDelete ==
    \E id \in StoreIds, fault \in StoreFaults :
        \E gone \in {DeleteReview(rows, id, fault)} :
           /\ rows' = gone.rows
           /\ pre' = rows
           /\ last' = StoreCall("delete", ZeroReview, id, fault, seq, gone.err,
                                ZeroReview)
           /\ UNCHANGED <<seq, now, pool, srv>>

\* pg.GetReviewById(ctx, id)
StoreGet ==
    \E id \in StoreIds, fault \in StoreFaults :
        \E got \in {GetReviewById(rows, id, fault)} :
           /\ pre' = rows
           /\ last' = StoreCall("get", ZeroReview, id, fault, seq, got.err, got.review)
           /\ UNCHANGED <<rows, seq, now, pool, srv>>

StoreNext == StoreCreate \/ StoreUpdate \/ StoreDelete \/ StoreGet

SpecStore == StoreInit /\ [][StoreNext]_vars

\* Two Reviews that differ at most in the given fields.
SameBut(r1, r2, fields) == \A f \in DOMAIN r1 \ fields : r1[f] = r2[f]

\* The row the last call of the store inserted, when it inserted one.
StoreInserted == last.op = "create" /\ seq = last.serial + 1 /\ seq \in DOMAIN rows

(***************************************************************************)
(* C13: Store.create ignores the id and the dateCreated of the Review it   *)
(* is given: the table after a create is the same for every Review that    *)
(* differs from the given one only in id and dateCreated.                  *)
(***************************************************************************)
C13_CreateIgnoresIdAndDateCreated ==
    last.op = "create"
        => \A other \in StoreReviews :
              SameBut(last.review, other, {"ID", "DateCreated"})
                  => CreateReview(pre, last.serial, other, last.fault).rows = rows

(***************************************************************************)
(* C13, as the code has it: Store.create ignores the id of the Review it   *)
(* is given and stores its dateCreated.  The table after a create is the   *)
(* same for every Review that differs from the given one only in id, the   *)
(* new row has the id SERIAL hands out, not the given one, and its         *)
(* dateCreated is the DateCreated of the given Review.                     *)
(***************************************************************************)
C13_CreateIgnoresIdOnly ==
    last.op = "create"
        => /\ \A other \in StoreReviews :
                 SameBut(last.review, other, {"ID"})
                     => CreateReview(pre, last.serial, other, last.fault).rows = rows
           /\ StoreInserted
                 => /\ seq \notin DOMAIN pre
                    /\ rows[seq] = RowOfReview(last.review)
                    /\ \A i \in DOMAIN pre : i \in DOMAIN rows /\ rows[i] = pre[i]

C13_Witness ==
    /\ StoreInserted
    /\ last.fault = "none"
    /\ last.review.ID \in DOMAIN pre
    /\ last.review.ID # seq
    /\ last.review.DateCreated = Date1
    /\ rows[seq].dateCreated = Date1

(***************************************************************************)
(* C14: ids are unique and stable.  The table is keyed by id (PRIMARY      *)
(* KEY); every id in it was handed out by SERIAL, once: a create adds one  *)
(* row under an id above every id handed out before and leaves every       *)
(* other row under its id; an update changes no id (the set of ids is the  *)
(* same and only the row of the given id is written); a delete removes at  *)
(* most the row of the given id; a read changes nothing.                   *)
(***************************************************************************)
C14_IdUniqueAndStable ==
    /\ DOMAIN rows \subseteq 1..seq
    /\ last.op = "create"
          => /\ \A i \in DOMAIN pre : i \in DOMAIN rows /\ rows[i] = pre[i]
             /\ \A i \in DOMAIN rows \ DOMAIN pre : i = seq /\ i = last.serial + 1
             /\ \A i \in DOMAIN pre : i <= last.serial
    /\ last.op = "update"
          => /\ DOMAIN rows = DOMAIN pre
             /\ \A i \in DOMAIN pre : i # last.id => rows[i] = pre[i]
             /\ seq = last.serial
    /\ last.op = "delete"
          => /\ DOMAIN pre \ {last.id} \subseteq DOMAIN rows
             /\ DOMAIN rows \subseteq DOMAIN pre
             /\ \A i \in DOMAIN rows : rows[i] = pre[i]
             /\ seq = last.serial
    /\ last.op = "get" => (rows = pre /\ seq = last.serial)

C14_Witness ==
    /\ StoreInserted
    /\ last.fault = "none"
    /\ Cardinality(DOMAIN pre) < last.serial
    /\ last.review.ID \in 1..last.serial

(***************************************************************************)
(* The API with request bodies whose values are not what the data model    *)
(* asks for: a create without a title, an update with an empty title and a *)
(* releaseDate that is no date.                                            *)
(***************************************************************************)
LooseCreateBodies ==
    {Malformed,
     Object(CreateObject(Date1)),
     Object([director |-> "Christopher Nolan", releaseDate |-> Date1,
             rating |-> "9/10", reviewNotes |-> "Great"])}

LooseUpdateBodies ==
    {Object(UpdateObject),
     Object([title |-> "", director |-> "Christopher Nolan",
             releaseDate |-> NotADate, rating |-> "10/10",
             reviewNotes |-> "Even better"])}

PostLoose == PostOf(LooseCreateBodies)

PutLoose == PutOf(LooseUpdateBodies)

NextLoose == PostLoose \/ Get \/ Delete \/ PutLoose

SpecLoose == Init /\ [][NextLoose]_vars

\* A releaseDate in the normalized representation: the text the
\* normalization gives for some time, either as NewReview cuts it (the first
\* 19 characters of the RFC822 text) or as the README shows it (date and
\* time, no zone).
NormalizedDate(s) ==
    \/ /\ Parse(s).ok
       /\ Slice19(Format(Parse(s).t)) = s
    \/ /\ Parse(s \o <<" ">> \o UTC).ok
       /\ DateAndTimeOnly(Parse(s \o <<" ">> \o UTC).t) = s

(***************************************************************************)
(* C15: in every state of the table reachable through the API the          *)
(* releaseDate of every row is in the normalized date representation,      *)
(* after creates and after updates alike.                                  *)
(***************************************************************************)
C15_ReleaseDateNormalized ==
    \A i \in DOMAIN rows : NormalizedDate(rows[i].releaseDate)

(***************************************************************************)
(* C16: in every state of the table reachable through the API, title,      *)
(* director, rating and reviewNotes of every row are non-empty text: no    *)
(* create or update request with an empty or missing value for one of      *)
(* them results in a stored row.                                           *)
(***************************************************************************)
C16_TextFieldsNonEmpty ==
    \A i \in DOMAIN rows :
        /\ rows[i].title # ""
        /\ rows[i].director # ""
        /\ rows[i].rating # ""
        /\ rows[i].reviewNotes # ""

\* The last request fails validation: its path id is no integer, or its
\* body does not decode.
InvalidPath == last.op \in {"GET", "PUT", "DELETE"} /\ ~Atoi(last.path).ok

InvalidBody == last.op \in {"POST", "PUT"} /\ ~last.body.valid

(***************************************************************************)
(* C17: validation failures are detected before the store is touched.  A   *)
(* request whose path id does not parse as an integer (GET, PUT, DELETE)   *)
(* or whose body does not decode (POST, PUT) is answered 400, no method of *)
(* the store is called for it, and the table is as it was.                 *)
(***************************************************************************)
C17_ValidationBeforeStore ==
    (InvalidPath \/ InvalidBody)
        => /\ ~last.called
           /\ last.serr = NilErr
           /\ Status = StatusBadRequest
           /\ rows = pre
           /\ Cardinality(DOMAIN rows) <= seq

C17_Witness ==
    /\ last.op = "PUT"
    /\ InvalidBody
    /\ ~InvalidPath
    /\ PathId \in DOMAIN pre
    /\ last.fault = "none"
    /\ IsErrorEnvelope(Body)

(***************************************************************************)
(* The store with the time its statements take.  Every method runs its one *)
(* statement under context.WithTimeout(ctx, defaultTimeout): a statement   *)
(* that is not done when the deadline passes is cancelled, the driver      *)
(* returns the context's error, and the statement has either not been      *)
(* applied or been applied whole without the result reaching the caller.   *)
(***************************************************************************)
\* defaultTimeout, in seconds
defaultTimeout == 10

\* The seconds a statement takes until the database is done with it.
Durations == {1, defaultTimeout, defaultTimeout + 1}

\* A deadline that never passes: the method called with a context that has
\* no timeout.
ExecUnderNoDeadline(took, applied) == "none"

\* What a statement that takes took seconds meets under the context with
\* the timeout; applied says whether the database had committed it when
\* the deadline passed.
ExecUnderTimeout(took, applied) ==
    IF took <= defaultTimeout THEN "none"
    ELSE IF applied THEN "dbLost" ELSE "dbFailed"

\* The seconds after which the method returns.
ReturnsAfter(took) == IF took <= defaultTimeout THEN took ELSE defaultTimeout

\* What last records of a timed call of the store.
TimedCall(op, review, id, took, fault, serial, err) ==
    [op |-> op, review |-> review, id |-> id, took |-> took, fault |-> fault,
     serial |-> serial, err |-> err, elapsed |-> ReturnsAfter(took)]

TimedInit ==
    /\ pool = NewPool
    /\ srv = NewServer
    /\ rows = NoRows
    /\ seq = 0
    /\ now = 0
    /\ pre = NoRows
    /\ last = TimedCall("none", ZeroReview, 0, 0, "none", 0, NilErr)

\* pg.CreateReview(ctx, review)
TimedCreate ==
    /\ seq < MaxCreates
    /\ \E review \in StoreReviews, took \in Durations, applied \in BOOLEAN :
          \E fault \in {ExecUnderTimeout(took, applied)} :
          \E made \in {CreateReview(rows, seq, review, fault)} :
             /\ rows' = made.rows
             /\ seq' = made.seq
             /\ pre' = rows
             /\ last' = TimedCall("create", review, review.ID, took, fault, seq,
                                  made.err)
             /\ UNCHANGED <<now, pool, srv>>

\* pg.UpdateReview(ctx, review)
TimedUpdate ==
    \E review \in StoreReviews, took \in Durations, applied \in BOOLEAN :
        \E fault \in {ExecUnderTimeout(took, applied)} :
        \E done \in {UpdateReview(rows, review, fault)} :
           /\ rows' = done.rows
           /\ pre' = rows
           /\ last' = TimedCall("update", review, review.ID, took, fault, seq, done.err)
           /\ UNCHANGED <<seq, now, pool, srv>>

\* pg.DeleteReview(ctx, id)
TimedDelete ==
    \E id \in StoreIds, took \in Durations, applied \in BOOLEAN :
        \E fault \in {ExecUnderTimeout(took, applied)} :
        \E gone \in {DeleteReview(rows, id, fault)} :
           /\ rows' = gone.rows
           /\ pre' = rows
           /\ last' = TimedCall("delete", ZeroReview, id, took, fault, seq, gone.err)
           /\ UNCHANGED <<seq, now, pool, srv>>

\* pg.GetReviewById(ctx, id)
TimedGet ==
    \E id \in StoreIds, took \in Durations, applied \in BOOLEAN :
        \E fault \in {ExecUnderTimeout(took, applied)} :
        \E got \in {GetReviewById(rows, id, fault)} :
           /\ pre' = rows
           /\ last' = TimedCall("get", ZeroReview, id, took, fault, seq, got.err)
           /\ UNCHANGED <<rows, seq, now, pool, srv>>

TimedNext == TimedCreate \/ TimedUpdate \/ TimedDelete \/ TimedGet

SpecTimed == TimedInit /\ [][TimedNext]_vars

\* An error that says the deadline of the context passed.
IsTimeout(err) == \E i \in DOMAIN err : err[i] = DriverErr[1]

\* The table after the whole statement of the last call, applied to the
\* table the call found.
WholeStatement ==
    CASE last.op = "create" -> stmtCreate(pre, last.serial, last.review).rows
      [] last.op = "update" -> stmtUpdate(pre, last.review).rows
      [] last.op = "delete" -> stmtDelete(pre, last.id).rows
      [] OTHER -> pre

(***************************************************************************)
(* C18: every operation of the store is bounded by the timeout of 10       *)
(* seconds.  It returns within the timeout; an operation whose statement   *)
(* takes longer returns a timeout failure, and the table is then exactly   *)
(* as before the operation or exactly as after its whole statement, never  *)
(* in between; an operation within the timeout is not failed by it.        *)
(***************************************************************************)
C18_TimeoutBoundsEveryOperation ==
    last.op # "none"
        => /\ last.elapsed <= defaultTimeout
           /\ last.took > defaultTimeout
                 => /\ last.err # NilErr
                    /\ IsTimeout(last.err)
                    /\ rows \in {pre, WholeStatement}
           /\ last.took <= defaultTimeout
                 => /\ ~IsTimeout(last.err)
                    /\ rows = WholeStatement

C18_Witness ==
    /\ last.op = "update"
    /\ last.took > defaultTimeout
    /\ IsTimeout(last.err)
    /\ rows # pre
    /\ rows = WholeStatement

(***************************************************************************)
(* The connection pool.  Every method of PgDb runs its statement on a      *)
(* connection it gets from sql.DB and gives back when the statement is     *)
(* done; any number of handlers do so at once.  The pool is counted, not   *)
(* listed: which connection an operation holds makes no difference.        *)
(***************************************************************************)
\* Connections that operations hold.
InUse(p) == p.numOpen - p.free

\* sql.DB.conn with no limit on open connections, as without SetMaxOpenConns.
connUnlimited(p) ==
    IF p.free > 0
    THEN [p EXCEPT !.free = @ - 1, !.event = "reused"]
    ELSE [p EXCEPT !.numOpen = @ + 1, !.event = "opened"]

\* sql.DB.conn: an idle connection if there is one; else the operation is
\* queued when maxOpenConns connections are open; else a new one is opened.
conn(p) ==
    IF p.free > 0
    THEN [p EXCEPT !.free = @ - 1, !.event = "reused"]
    ELSE IF p.numOpen >= maxOpenConns
         THEN [p EXCEPT !.waiting = @ + 1, !.event = "queued"]
         ELSE [p EXCEPT !.numOpen = @ + 1, !.event = "opened"]

\* sql.DB.putConn: the connection goes to a queued operation if there is
\* one; else it is kept idle, up to maxIdleConns; else it is closed.
putConn(p) ==
    IF p.waiting > 0
    THEN [p EXCEPT !.waiting = @ - 1, !.event = "handed"]
    ELSE IF p.free < maxIdleConns
         THEN [p EXCEPT !.free = @ + 1, !.event = "idle"]
         ELSE [p EXCEPT !.numOpen = @ - 1, !.event = "closed"]

\* The context of a queued operation expires: it leaves the queue with the
\* context's error.
waitExpired(p) == [p EXCEPT !.waiting = @ - 1, !.event = "timeout"]

\* An idle connection reaches maxConnLifetime and is closed.
connExpired(p) == [p EXCEPT !.free = @ - 1, !.numOpen = @ - 1, !.event = "expired"]

\* An operation of the store starts and asks for a connection.
PoolAcquire ==
    /\ InUse(pool) + pool.waiting < maxOpenConns + MaxWaiting
    /\ pool' = conn(pool)
    /\ UNCHANGED <<rows, seq, now, last, pre, srv>>

\* An operation that holds a connection is done and gives it back.
PoolRelease ==
    /\ InUse(pool) > 0
    /\ pool' = putConn(pool)
    /\ UNCHANGED <<rows, seq, now, last, pre, srv>>

\* The timeout of a queued operation passes.
PoolWaitTimeout ==
    /\ pool.waiting > 0
    /\ pool' = waitExpired(pool)
    /\ UNCHANGED <<rows, seq, now, last, pre, srv>>

\* The lifetime of an idle connection passes.
PoolConnExpire ==
    /\ pool.free > 0
    /\ pool' = connExpired(pool)
    /\ UNCHANGED <<rows, seq, now, last, pre, srv>>

PoolNext == PoolAcquire \/ PoolRelease \/ PoolWaitTimeout \/ PoolConnExpire

SpecPool == Init /\ [][PoolNext]_vars

(***************************************************************************)
(* C19: under any number of concurrent operations the connections in use   *)
(* never exceed the pool maximum of 25.  An operation that starts when all *)
(* of them are in use is queued, no connection is opened for it, and it    *)
(* stays queued only while the pool is exhausted.                          *)
(***************************************************************************)
C19_ConnectionsBounded ==
    /\ pool.numOpen <= maxOpenConns
    /\ InUse(pool) \in 0..maxOpenConns
    /\ pool.waiting > 0 => InUse(pool) = maxOpenConns
    /\ pool.event = "queued" => (pool.numOpen = maxOpenConns /\ pool.free = 0)
    /\ pool.event = "opened" => pool.waiting = 0
    /\ pool.event = "timeout" => pool.numOpen = maxOpenConns

C19_Witness ==
    /\ pool.event = "queued"
    /\ pool.waiting = MaxWaiting
    /\ InUse(pool) = maxOpenConns

(***************************************************************************)
(* Shutdown.  RunNewServer blocks on the signal channel; on SIGINT or      *)
(* SIGTERM it calls httpServer.Shutdown with a context of 30 seconds.      *)
(* Shutdown closes the listener and returns when no handler is running or  *)
(* when the context expires; RunNewServer and main then return, and the    *)
(* process ends with whatever handlers still run.                          *)
(***************************************************************************)
\* The grace period of the shutdown, in seconds.
gracePeriod == 30

\* signal.Notify(shutdownChan, os.Interrupt, syscall.SIGTERM)
Signals == {"SIGINT", "SIGTERM"}

\* A Shutdown that leaves the listener open.
ShutdownKeepsListening(s, sig) ==
    [s EXCEPT !.phase = "draining", !.grace = 0, !.signal = sig]

\* httpServer.Shutdown(ctx), its start: the listener is closed.
Shutdown(s, sig) ==
    [s EXCEPT !.phase = "draining", !.listening = FALSE, !.grace = 0, !.signal = sig]

\* The listener accepts a connection and its handler starts.
SrvAccept ==
    /\ srv.listening
    /\ srv.phase # "stopped"
    /\ srv.inflight < MaxInflight
    /\ srv' = [srv EXCEPT !.inflight = @ + 1,
                          !.late = @ \/ srv.phase # "serving"]
    /\ UNCHANGED <<rows, seq, now, last, pre, pool>>

\* A handler returns.
SrvFinish ==
    /\ srv.phase # "stopped"
    /\ srv.inflight > 0
    /\ srv' = [srv EXCEPT !.inflight = @ - 1]
    /\ UNCHANGED <<rows, seq, now, last, pre, pool>>

\* <-shutdownChan, then httpServer.Shutdown(ctx)
SrvSignal ==
    /\ srv.phase = "serving"
    /\ \E sig \in Signals : srv' = Shutdown(srv, sig)
    /\ UNCHANGED <<rows, seq, now, last, pre, pool>>

\* A second of the grace period passes while handlers run.
SrvTick ==
    /\ srv.phase = "draining"
    /\ srv.inflight > 0
    /\ srv.grace < gracePeriod
    /\ srv' = [srv EXCEPT !.grace = @ + 1]
    /\ UNCHANGED <<rows, seq, now, last, pre, pool>>

\* Shutdown finds no handler running and returns nil; the process ends.
SrvStopped ==
    /\ srv.phase = "draining"
    /\ srv.inflight = 0
    /\ srv' = [srv EXCEPT !.phase = "stopped"]
    /\ UNCHANGED <<rows, seq, now, last, pre, pool>>

\* The context of Shutdown expires; Shutdown returns its error, RunNewServer
\* and main return, and the handlers still running end with the process.
SrvGraceOver ==
    /\ srv.phase = "draining"
    /\ srv.inflight > 0
    /\ srv.grace = gracePeriod
    /\ srv' = [srv EXCEPT !.phase = "stopped", !.killed = srv.inflight,
                          !.inflight = 0]
    /\ UNCHANGED <<rows, seq, now, last, pre, pool>>

SrvNext ==
    SrvAccept \/ SrvFinish \/ SrvSignal \/ SrvTick \/ SrvStopped \/ SrvGraceOver

SpecShutdown == Init /\ [][SrvNext]_vars

(***************************************************************************)
(* C20: shutdown is cooperative.  After SIGINT or SIGTERM the server       *)
(* accepts no new connection; handlers in flight are left to finish for up *)
(* to the grace period of 30 seconds, none is cut off before it ends; and  *)
(* when the server has stopped no handler runs any more: those still       *)
(* running at the end of the grace period were closed by force.            *)
(***************************************************************************)
C20_ShutdownIsCooperative ==
    /\ srv.phase # "serving"
          => (~srv.listening /\ ~srv.late /\ srv.signal \in Signals)
    /\ srv.grace <= gracePeriod
    /\ srv.killed > 0 => (srv.phase = "stopped" /\ srv.grace = gracePeriod)
    /\ srv.phase = "stopped" => srv.inflight = 0
    /\ (srv.phase = "draining" /\ srv.grace < gracePeriod) => srv.killed = 0

C20_Witness ==
    /\ srv.phase = "stopped"
    /\ srv.signal = "SIGTERM"
    /\ srv.killed = MaxInflight
    /\ srv.grace = gracePeriod

(***************************************************************************)
(* main: InitializeClientAndDB, then RunNewServer.  The process is the     *)
(* server record with the state of the database client beside it: db (the  *)
(* pool is closed, or open and pinged), prepared (the statements that are  *)
(* prepared), tried and started (ListenAndServe was called, and it bound   *)
(* the address), exit (how the process ended).                             *)
(***************************************************************************)
\* The prepared statements, in the order prepareStatements prepares them.
Statements == <<"stmtCreate", "stmtUpdate", "stmtDelete", "stmtGetById">>

\* The steps of InitializeClientAndDB that can fail.
InitFailures == {"none", "open", "ping"} \cup {Statements[i] : i \in DOMAIN Statements}

\* InitializeClientAndDB, failing at the given step: sql.Open, the pool
\* settings, Ping, prepareStatements; after a failed Ping or Prepare the
\* pool is closed again.
InitializeClientAndDB(failure) ==
    LET failedAt == IF failure \in {Statements[i] : i \in DOMAIN Statements}
                    THEN CHOOSE i \in DOMAIN Statements : Statements[i] = failure
                    ELSE Len(Statements) + 1
    IN IF failure = "open"
       THEN [db |-> "closed", prepared |-> {}, err |-> <<"Failed: Open Connection">>]
       ELSE IF failure = "ping"
            THEN [db |-> "closed", prepared |-> {}, err |-> <<"Failed: Ping DB">>]
            ELSE IF failure # "none"
                 THEN [db |-> "closed",
                       prepared |-> {Statements[i] : i \in 1..(failedAt - 1)},
                       err |-> <<"Failed: Prepare Statements">>]
                 ELSE [db |-> "pinged",
                       prepared |-> {Statements[i] : i \in DOMAIN Statements},
                       err |-> NilErr]

\* The process before main runs.
ProcessStart ==
    [phase |-> "init", listening |-> FALSE, inflight |-> 0, grace |-> 0,
     killed |-> 0, late |-> FALSE, signal |-> "none",
     db |-> "closed", prepared |-> {}, tried |-> FALSE, started |-> FALSE,
     exit |-> "none"]

\* main as it would be if it went on to RunNewServer whatever
\* InitializeClientAndDB returned.
mainIgnoresInitError(s, failure) ==
    LET client == InitializeClientAndDB(failure)
    IN [s EXCEPT !.phase = "serving", !.db = client.db,
                 !.prepared = client.prepared]

\* main up to the point where RunNewServer blocks on the signal channel:
\* log.Fatal when InitializeClientAndDB fails; else the router and the
\* server are set up and the goroutine of ListenAndServe is started.
main(s, failure) ==
    LET client == InitializeClientAndDB(failure)
    IN IF client.err # NilErr
       THEN [s EXCEPT !.phase = "exited", !.db = client.db,
                      !.prepared = client.prepared, !.exit = "fatal"]
       ELSE [s EXCEPT !.phase = "serving", !.db = client.db,
                      !.prepared = client.prepared]

MainInit ==
    /\ rows = NoRows
    /\ seq = 0
    /\ now = 0
    /\ pre = NoRows
    /\ last = [op |-> "none", path |-> <<>>, body |-> Malformed, fault |-> "none",
               at |-> 0, called |-> FALSE, serr |-> NilErr, w |-> NewWriter]
    /\ pool = NewPool
    /\ srv = ProcessStart

MainRun ==
    /\ srv.phase = "init"
    /\ \E failure \in InitFailures : srv' = main(srv, failure)
    /\ UNCHANGED <<rows, seq, now, last, pre, pool>>

\* The goroutine of ListenAndServe: the address is bound and the server
\* listens, or it is not and the error is printed.
SrvListen ==
    /\ srv.phase = "serving"
    /\ ~srv.tried
    /\ \E bound \in BOOLEAN :
          srv' = [srv EXCEPT !.tried = TRUE, !.listening = bound, !.started = bound]
    /\ UNCHANGED <<rows, seq, now, last, pre, pool>>

MainNext ==
    \/ MainRun
    \/ SrvListen
    \/ SrvAccept
    \/ SrvFinish
    \/ SrvSignal
    \/ SrvTick
    \/ SrvStopped
    \/ SrvGraceOver

SpecMain == MainInit /\ [][MainNext]_vars

\* What RunNewServer returns: the error of Shutdown, wrapped, when the
\* grace period ran out; else nil.
RunNewServerResult(s) ==
    IF s.phase # "stopped" THEN "running"
    ELSE IF s.killed > 0 THEN "server shutdown failed" ELSE "nil"

(***************************************************************************)
(* C21: RunNewServer returns a non-nil error if the server fails to start  *)
(* (the address cannot be bound) or if the shutdown fails, and returns nil *)
(* only after a server that did start has been shut down.                  *)
(***************************************************************************)
C21_RunNewServerReportsStartFailure ==
    srv.phase = "stopped"
        => /\ (srv.tried /\ ~srv.started) => RunNewServerResult(srv) # "nil"
           /\ srv.killed > 0 => RunNewServerResult(srv) # "nil"
           /\ RunNewServerResult(srv) = "nil" => srv.started

(***************************************************************************)
(* C26: startup ordering.  The server listens and a handler runs only      *)
(* after the pool was opened and pinged and all four statements were       *)
(* prepared; if a step of the initialization fails the process exits,      *)
(* ListenAndServe is never called and no request is handled.               *)
(***************************************************************************)
C26_StartupOrdering ==
    /\ (srv.tried \/ srv.listening \/ srv.inflight > 0)
          => /\ srv.db = "pinged"
             /\ srv.prepared = {Statements[i] : i \in DOMAIN Statements}
    /\ (srv.phase # "init" /\ srv.prepared # {Statements[i] : i \in DOMAIN Statements})
          => srv.exit = "fatal"
    /\ srv.exit = "fatal"
          => /\ srv.phase = "exited"
             /\ srv.db = "closed"
             /\ ~srv.tried /\ ~srv.listening /\ srv.inflight = 0

C26_Witness ==
    /\ srv.phase = "serving"
    /\ srv.listening
    /\ srv.inflight = MaxInflight
    /\ Cardinality(srv.prepared) = 4

(***************************************************************************)
(* C22: on a successful PUT /review/{id} the 200 response is the updated   *)
(* Review: every field of the returned Review, dateCreated included,       *)
(* equals the field of the row stored under that id after the update.      *)
(***************************************************************************)
C22_PutReturnsStoredReview ==
    (last.op = "PUT" /\ Status = StatusOK /\ Len(Body) = 1)
        => /\ PathId \in DOMAIN rows
           /\ Body[1].ID = PathId
           /\ RowOf(Body[1]) = rows[PathId]

(***************************************************************************)
(* C23: the error message of a 400 response to GET /review/{id} tells the  *)
(* failure kinds apart: it reports an invalid id when the path parameter   *)
(* does not parse, and it reports 'not found' only when the store holds no *)
(* row with that id, not when the store operation failed by timeout or     *)
(* connectivity.                                                           *)
(***************************************************************************)
C23_GetErrorTellsKindsApart ==
    (last.op = "GET" /\ Status = StatusBadRequest /\ IsErrorEnvelope(Body))
        => /\ ~Atoi(last.path).ok => Body[1].Error[1] = "invalid id"
           /\ Body[1].Error[1] = "review not found"
                 => /\ Atoi(last.path).ok
                    /\ PathId \notin DOMAIN pre
                    /\ ~DbFault

(***************************************************************************)
(* C24: every response written by a handler has Content-Type               *)
(* application/json: WriteJSON sets the header before it writes the status *)
(* line, so the header goes out with the status line, on the success path  *)
(* and on the error path, and every request is answered.                   *)
(***************************************************************************)
C24_ContentTypeOnEveryResponse ==
    last.op # "none"
        => /\ Status \in {StatusOK, StatusBadRequest}
           /\ last.w.sentType = "application/json"
           /\ last.w.header = "application/json"

C24_Witness ==
    /\ last.op = "DELETE"
    /\ Status = StatusBadRequest
    /\ IsErrorEnvelope(Body)
    /\ last.w.sentType = "application/json"
    /\ PathId \in DOMAIN pre
    /\ DbFault

(***************************************************************************)
(* C30: for every request exactly one response is written: WriteHeader is  *)
(* called once, and a handler that has written its 200 response never      *)
(* makes makeHttpHandleFunc write a second (400, error envelope) response, *)
(* even when encoding or sending the body fails.                           *)
(***************************************************************************)
C30_ExactlyOneResponse ==
    last.op # "none"
        => /\ last.w.headerCalls = 1
           /\ Len(Body) <= 1

(***************************************************************************)
(* C29, as stated: if POST /review is answered with status 400, no row was *)
(* inserted by that request: the store after the request equals the store  *)
(* before it, for every failure cause, a store operation that hit its      *)
(* timeout included.                                                       *)
(***************************************************************************)
C29_RejectedPostInsertsNothing ==
    (last.op = "POST" /\ Status = StatusBadRequest) => rows = pre

(***************************************************************************)
(* C29, amended: a POST /review answered with status 400 changes no        *)
(* existing row, and it inserted no row when the body did not decode or    *)
(* the statement failed without being applied; when the deadline of the    *)
(* store operation passed after the statement was applied, the row of the  *)
(* request is in the table although the answer is 400.                     *)
(***************************************************************************)
C29_RejectedPostInsertsOnlyWhenReplyLost ==
    (last.op = "POST" /\ Status = StatusBadRequest)
        => /\ \A id \in DOMAIN pre : id \in DOMAIN rows /\ rows[id] = pre[id]
           /\ (~last.called \/ last.fault # "dbLost") => rows = pre
           /\ (last.called /\ last.fault = "dbLost")
                 => /\ Inserted
                    /\ DOMAIN rows = DOMAIN pre \cup {seq}
                    /\ IsErrorEnvelope(Body)
                    /\ Body[1].Error = Errorf("failed to create review", DriverErr)

C29_Witness ==
    /\ last.op = "POST"
    /\ Status = StatusBadRequest
    /\ last.fault = "dbLost"
    /\ Inserted
    /\ pre # NoRows

(***************************************************************************)
(* C28: frame.  An update or a delete with id X changes no row other than  *)
(* the row with id X; a create changes no existing row; getById and every  *)
(* operation that returns a not-found failure leave the whole table        *)
(* unchanged.                                                              *)
(***************************************************************************)
C28_Frame ==
    /\ last.op \in {"update", "delete"}
          => \A id \in (DOMAIN pre \cup DOMAIN rows) \ {last.id} :
                id \in DOMAIN pre /\ id \in DOMAIN rows /\ rows[id] = pre[id]
    /\ last.op = "create"
          => \A id \in DOMAIN pre : id \in DOMAIN rows /\ rows[id] = pre[id]
    /\ (last.op = "get" \/ IsNotFound(last.err)) => (rows = pre /\ seq = last.serial)

C28_Witness ==
    /\ last.op = "update"
    /\ last.err = NilErr
    /\ rows # pre
    /\ \E id \in DOMAIN pre \ {last.id} : pre[id].title # last.review.Title

(***************************************************************************)
(* Concurrent requests.  net/http runs every request in a goroutine of its *)
(* own; each method of PgDb sends one statement, which the database        *)
(* executes as a whole.  A goroutine issues a call (the arguments are      *)
(* fixed), the database executes the statement of one issued call, and the *)
(* method returns what it makes of the result.  last holds the call of     *)
(* every goroutine; pre holds the history the properties speak of: for     *)
(* each id the number of deletes that returned success, and the Review     *)
(* whose statement wrote the row last.                                     *)
(***************************************************************************)
MaxConcurrent == 2

Goroutines == 1..MaxConcurrent

\* The two payloads of the concurrent requests: they differ in every column
\* an UPDATE writes.
ConcReviews ==
    {[ID |-> 1, Title |-> "Inception", Director |-> "Christopher Nolan",
      ReleaseDate |-> Date2, Rating |-> "9/10", ReviewNotes |-> "Great",
      DateCreated |-> Slice19(Format(Now(0)))],
     [ID |-> 1, Title |-> "Tenet", Director |-> "C. Nolan",
      ReleaseDate |-> Slice19(Format(Now(0))), Rating |-> "7/10",
      ReviewNotes |-> "Confusing", DateCreated |-> Slice19(Format(Now(0)))]}

ConcOps == {"create", "update", "delete", "get"}

\* The call of a goroutine: pc is idle, issued or returned; existed tells
\* whether the row of the call was in the table when the call was issued.
ConcCall(pc, op, review, existed, err) ==
    [pc |-> pc, op |-> op, review |-> review, existed |-> existed, err |-> err]

NoHistory == [deletes |-> [id \in {} |-> 0], wrote |-> [id \in {} |-> ZeroReview]]

ConcInit ==
    /\ pool = NewPool
    /\ srv = NewServer
    /\ rows = NoRows
    /\ seq = 0
    /\ now = 0
    /\ pre = NoHistory
    /\ last = [g \in Goroutines |-> ConcCall("idle", "none", ZeroReview, FALSE, NilErr)]

\* What a call is given: a Review for create and update, an id (carried in
\* an otherwise empty Review) for delete and get.
ConcArguments(op) ==
    IF op \in {"create", "update"}
    THEN ConcReviews
    ELSE {[ZeroReview EXCEPT !.ID = review.ID] : review \in ConcReviews}

\* A handler calls a method of the store.
ConcIssue ==
    \E g \in Goroutines, op \in ConcOps :
      \E review \in ConcArguments(op) :
        /\ last[g].pc # "issued"
        /\ op = "create" => seq < MaxCreates
        /\ last' = [last EXCEPT ![g] = ConcCall("issued", op, review,
                                                review.ID \in DOMAIN rows, NilErr)]
        /\ UNCHANGED <<rows, seq, now, pre, pool, srv>>

\* pg.stmtCreate.QueryRowContext of an issued CreateReview, and its return.
ConcCreate ==
    \E g \in Goroutines :
        /\ last[g].pc = "issued"
        /\ last[g].op = "create"
        /\ seq < MaxCreates
        /\ \E made \in {CreateReview(rows, seq, last[g].review, "none")} :
              /\ rows' = made.rows
              /\ seq' = made.seq
              /\ last' = [last EXCEPT ![g].pc = "returned", ![g].err = made.err]
              /\ pre' = [pre EXCEPT !.wrote =
                            [id \in DOMAIN pre.wrote \cup {made.seq} |->
                               IF id = made.seq THEN last[g].review ELSE pre.wrote[id]]]
        /\ UNCHANGED <<now, pool, srv>>

\* pg.stmtUpdate.ExecContext of an issued UpdateReview, and its return.
ConcUpdate ==
    \E g \in Goroutines :
        /\ last[g].pc = "issued"
        /\ last[g].op = "update"
        /\ \E done \in {UpdateReview(rows, last[g].review, "none")} :
              /\ rows' = done.rows
              /\ last' = [last EXCEPT ![g].pc = "returned", ![g].err = done.err]
              /\ pre' = IF done.err = NilErr
                        THEN [pre EXCEPT !.wrote[last[g].review.ID] =
                                [last[g].review EXCEPT !.DateCreated =
                                   pre.wrote[last[g].review.ID].DateCreated]]
                        ELSE pre
        /\ UNCHANGED <<seq, now, pool, srv>>

\* pg.stmtDelete.ExecContext of an issued DeleteReview, and its return.
ConcDelete ==
    \E g \in Goroutines :
        /\ last[g].pc = "issued"
        /\ last[g].op = "delete"
        /\ \E gone \in {DeleteReview(rows, last[g].review.ID, "none")} :
              /\ rows' = gone.rows
              /\ last' = [last EXCEPT ![g].pc = "returned", ![g].err = gone.err]
              /\ pre' = IF gone.err = NilErr
                        THEN [pre EXCEPT !.deletes =
                                [id \in DOMAIN pre.deletes \cup {last[g].review.ID} |->
                                   IF id = last[g].review.ID
                                   THEN (IF id \in DOMAIN pre.deletes
                                         THEN pre.deletes[id] ELSE 0) + 1
                                   ELSE pre.deletes[id]]]
                        ELSE pre
        /\ UNCHANGED <<seq, now, pool, srv>>

\* pg.stmtGetById.QueryRowContext of an issued GetReviewById, and its return.
ConcGet ==
    \E g \in Goroutines :
        /\ last[g].pc = "issued"
        /\ last[g].op = "get"
        /\ \E got \in {GetReviewById(rows, last[g].review.ID, "none")} :
              last' = [last EXCEPT ![g].pc = "returned", ![g].err = got.err]
        /\ UNCHANGED <<rows, seq, now, pre, pool, srv>>

ConcNext == ConcIssue \/ ConcCreate \/ ConcUpdate \/ ConcDelete \/ ConcGet

SpecConc == ConcInit /\ [][ConcNext]_vars

\* The columns an UPDATE writes, of a row and of a Review.
UpdateColumnsOfRow(row) ==
    <<row.title, row.director, row.releaseDate, row.rating, row.reviewNotes>>

UpdateColumnsOf(review) ==
    <<review.Title, review.Director, review.ReleaseDate, review.Rating,
      review.ReviewNotes>>

\* The deletes of id that have returned and were issued while the row existed.
ReturnedDeletes(id) ==
    {g \in Goroutines : /\ last[g].pc = "returned"
                         /\ last[g].op = "delete"
                         /\ last[g].review.ID = id
                         /\ last[g].existed}

(***************************************************************************)
(* C27: under any interleaving of concurrent requests each store operation *)
(* takes effect atomically as one statement, so the outcome is that of the *)
(* operations in the order their statements ran.  Of the concurrent        *)
(* deletes of one existing id exactly one returns success and every other  *)
(* one returns not-found; after concurrent updates of one id the row       *)
(* equals the payload of the update that ran last in full, never a mix of  *)
(* the fields of two payloads.                                             *)
(***************************************************************************)
C27_OperationsAreAtomic ==
    /\ \A id \in DOMAIN pre.deletes : pre.deletes[id] = 1 /\ id \notin DOMAIN rows
    /\ \A id \in 1..seq :
          \A g \in ReturnedDeletes(id) :
             /\ id \in DOMAIN pre.deletes
             /\ last[g].err = NilErr \/ IsNotFound(last[g].err)
             /\ Cardinality({h \in ReturnedDeletes(id) : last[h].err = NilErr}) <= 1
    /\ \A id \in DOMAIN rows :
          /\ UpdateColumnsOfRow(rows[id]) = UpdateColumnsOf(pre.wrote[id])
          /\ \E review \in ConcReviews :
                UpdateColumnsOfRow(rows[id]) = UpdateColumnsOf(review)

C27_Witness ==
    \E g \in Goroutines, h \in Goroutines :
       /\ g # h
       /\ g \in ReturnedDeletes(1)
       /\ h \in ReturnedDeletes(1)
       /\ last[g].err = NilErr
       /\ IsNotFound(last[h].err)

(***************************************************************************)
(* Client disconnects.  net/http cancels request.Context() when the        *)
(* connection of the client closes; the handlers hand context.Background() *)
(* to the store, which puts its timeout on it.  last records of a request  *)
(* also whether the client disconnected while it was in flight and the     *)
(* SERIAL value before it.                                                 *)
(***************************************************************************)
\* request.Context() of a request whose client has, or has not, disconnected.
requestContext(disconnected) == [cancelled |-> disconnected]

\* The context a handler would hand to the store if it took the request's.
handlerContextOfRequest(ctx) == ctx

\* The context the handlers hand to the store: context.Background().
handlerContext(ctx) == [cancelled |-> FALSE]

\* context.WithTimeout(ctx, defaultTimeout) and the statement under it: under
\* a cancelled context the statement fails and is not applied; else it meets
\* the fault of the request.
withTimeout(ctx, fault) == IF ctx.cancelled THEN "dbFailed" ELSE fault

\* The requests of the clients that may disconnect.
CancelCreateBodies == {Malformed, Object(CreateObject(Date1))}

CancelUpdateBodies == {Object(UpdateObject)}

CancelPaths == {<<"1">>, <<"a", "b", "c">>}

CancelRequest(op, path, body, fault, at, h, disconnected, serial) ==
    [op |-> op, path |-> path, body |-> body, fault |-> fault, at |-> at,
     called |-> h.called, serr |-> h.serr,
     w |-> makeHttpHandleFunc(h, IF disconnected /\ fault = "none"
                                 THEN "writeFailed" ELSE fault),
     disconnected |-> disconnected, serial |-> serial]

CancelInit ==
    /\ pool = NewPool
    /\ srv = NewServer
    /\ rows = NoRows
    /\ seq = 0
    /\ now = 0
    /\ pre = NoRows
    /\ last = [op |-> "none", path |-> <<>>, body |-> Malformed, fault |-> "none",
               at |-> 0, called |-> FALSE, serr |-> NilErr, w |-> NewWriter,
               disconnected |-> FALSE, serial |-> 0]

CancelPost ==
    /\ seq < MaxCreates
    /\ \E body \in CancelCreateBodies, fault \in Faults, disconnected \in BOOLEAN :
          \E t \in IF body.valid THEN now..MaxNow ELSE {now} :
             \E h \in {handleCreateReview(rows, seq, body,
                           withTimeout(handlerContext(requestContext(disconnected)),
                                       fault), t, t)} :
                /\ rows' = h.rows
                /\ seq' = h.seq
                /\ now' = t
                /\ pre' = rows
                /\ last' = CancelRequest("POST", <<>>, body, fault,
                                         IF body.valid THEN t ELSE 0, h,
                                         disconnected, seq)
                /\ UNCHANGED <<pool, srv>>

CancelGet ==
    \E path \in CancelPaths, fault \in Faults, disconnected \in BOOLEAN :
        \E h \in {handleGetReview(rows, seq, path,
                      withTimeout(handlerContext(requestContext(disconnected)), fault))} :
           /\ rows' = h.rows
           /\ seq' = h.seq
           /\ pre' = rows
           /\ last' = CancelRequest("GET", path, Malformed, fault, 0, h,
                                    disconnected, seq)
           /\ UNCHANGED <<now, pool, srv>>

CancelDelete ==
    \E path \in CancelPaths, fault \in Faults, disconnected \in BOOLEAN :
        \E h \in {handleDeleteReview(rows, seq, path,
                      withTimeout(handlerContext(requestContext(disconnected)), fault))} :
           /\ rows' = h.rows
           /\ seq' = h.seq
           /\ pre' = rows
           /\ last' = CancelRequest("DELETE", path, Malformed, fault, 0, h,
                                    disconnected, seq)
           /\ UNCHANGED <<now, pool, srv>>

CancelPut ==
    \E path \in CancelPaths, body \in CancelUpdateBodies, fault \in Faults,
       disconnected \in BOOLEAN :
        \E h \in {handleUpdateReview(rows, seq, path, body,
                      withTimeout(handlerContext(requestContext(disconnected)), fault))} :
           /\ rows' = h.rows
           /\ seq' = h.seq
           /\ pre' = rows
           /\ last' = CancelRequest("PUT", path, body, fault, 0, h,
                                    disconnected, seq)
           /\ UNCHANGED <<now, pool, srv>>

CancelNext == CancelPost \/ CancelGet \/ CancelDelete \/ CancelPut

SpecCancel == CancelInit /\ [][CancelNext]_vars

\* What the handler of the last request does to the table before it when
\* the client stays connected and the request meets the same fault.
StayedConnected ==
    IF last.op = "POST"
    THEN handleCreateReview(pre, last.serial, last.body, last.fault, last.at, last.at)
    ELSE IF last.op = "GET"
         THEN handleGetReview(pre, last.serial, last.path, last.fault)
         ELSE IF last.op = "DELETE"
              THEN handleDeleteReview(pre, last.serial, last.path, last.fault)
              ELSE handleUpdateReview(pre, last.serial, last.path, last.body,
                                      last.fault)

(***************************************************************************)
(* C25: a client that disconnects while its request is in flight does not  *)
(* cancel the store operation of that request: the operation runs to its   *)
(* own outcome (success, failure or the fixed timeout) and its effect on   *)
(* the table is the same as if the client had stayed connected.            *)
(***************************************************************************)
C25_DisconnectDoesNotCancel ==
    (last.op # "none" /\ last.disconnected)
        => /\ rows = StayedConnected.rows
           /\ seq = StayedConnected.seq
           /\ last.called = StayedConnected.called
           /\ last.serr = StayedConnected.serr
           /\ last.called
                 => (DbFault <=> \E i \in DOMAIN last.serr : last.serr[i] = DriverErr[1])

C25_Witness ==
    /\ last.op = "POST"
    /\ last.disconnected
    /\ last.fault = "none"
    /\ Inserted
    /\ pre # NoRows

====
